---- MODULE Spec2Model ----
(***************************************************************************)
(* torchx/util/entrypoints.py: load, _defer_load_ep and load_group.        *)
(*                                                                         *)
(* Python strings are sequences of one-character strings, so that          *)
(* str.endswith, str.replace and + are computed, not assumed.  A Python    *)
(* dict is a function from keys to values; dict objects live in `heap`,    *)
(* keyed by the object's identity.  Every Python value is a record with a  *)
(* `ty` field.                                                             *)
(*                                                                         *)
(* The caller holds two names: "d", a dict of its own that it may pass as  *)
(* `default`, and "r", bound to what load_group last returned.  A dict     *)
(* that load_group creates is the object "r"; the dict an earlier call     *)
(* created is released when the caller binds its name again.               *)
(***************************************************************************)
EXTENDS Naturals, Sequences, FiniteSets, TLC

VARIABLES
    store,        \* metadata.entry_points(): the entries, in enumeration order
    heap,         \* the live dict objects: heap[o] is the content of object o
    last,         \* the last call of the API or of a deferred_load_fn, with its outcome
    loaderCalls,  \* per entry, the number of ep.load() calls made so far
    invocations   \* per entry, the number of calls of a run() closure bound to it

vars == <<store, heap, last, loaderCalls, invocations>>

-----------------------------------------------------------------------------
(* Bounds of the model *)

MaxEntries == 2
MaxCalls == 2

-----------------------------------------------------------------------------
(* Strings and values *)

Str_a == <<"a">>
Str_aa == <<"a", "a">>
Str_dot_a == <<".", "a">>
Str_aa_dot_a == <<"a", "a", ".", "a">>
Str_x == <<"x">>
Str_y == <<"y">>
Str_z == <<"z">>

\* the groups under which entries are registered
EntryGroups == {Str_a, Str_aa_dot_a}
\* the groups callers ask for: "aa" occurs in "aa.a" without ending it
AskedGroups == {Str_a, Str_dot_a, Str_aa, Str_aa_dot_a, <<>>}
Names == {Str_x, Str_y}

PyNone == [ty |-> "None"]
\* caller-supplied values: a falsy one (0) and two plain objects
PyZero == [ty |-> "int", v |-> 0]
PyObj(id) == [ty |-> "object", id |-> id]
DictRef(i) == [ty |-> "dict", ref |-> i]

\* EntryPoint.value: "pkg.mod" (attr None) or "pkg.mod:fn"
NoAttr == "None"
ModuleValue == [module |-> "pkg.mod", attr |-> NoAttr]
FunctionValue == [module |-> "pkg.mod", attr |-> "fn"]
Values == {ModuleValue, FunctionValue}

Entries == [group : EntryGroups, name : Names, value : Values]

RECURSIVE SeqsUpTo(_, _)
SeqsUpTo(S, n) ==
    IF n = 0 THEN {<<>>}
    ELSE LET shorter == SeqsUpTo(S, n - 1)
         IN shorter \cup {Append(s, e) : s \in {t \in shorter : Len(t) = n - 1}, e \in S}

Stores == SeqsUpTo(Entries, MaxEntries)

Range(s) == {s[i] : i \in DOMAIN s}

\* str.endswith
EndsWith(s, suffix) ==
    /\ Len(suffix) <= Len(s)
    /\ SubSeq(s, Len(s) - Len(suffix) + 1, Len(s)) = suffix

\* s.replace(old, ""): every non-overlapping occurrence of old, scanning from
\* the left, is removed; an empty old removes nothing
RECURSIVE RemoveAll(_, _)
RemoveAll(s, old) ==
    IF Len(old) = 0 \/ Len(s) < Len(old) THEN s
    ELSE IF SubSeq(s, 1, Len(old)) = old
         THEN RemoveAll(SubSeq(s, Len(old) + 1, Len(s)), old)
         ELSE <<Head(s)>> \o RemoveAll(Tail(s), old)

\* dict.update / d[k] = v
DictSet(d, k, v) == [j \in DOMAIN d \cup {k} |-> IF j = k THEN v ELSE d[j]]
DictUpdate(d, other) ==
    [j \in DOMAIN d \cup DOMAIN other |-> IF j \in DOMAIN other THEN other[j] ELSE d[j]]

-----------------------------------------------------------------------------
(* The Target Loader: EntryPoint.load() and the loaded target *)

\* ep.attr
Attr(ep) == ep.value.attr

\* ep.load(): the module, or the attribute of the module
Loaded(ep) ==
    IF Attr(ep) = NoAttr
    THEN [ty |-> "module", module |-> ep.value.module]
    ELSE [ty |-> "function", module |-> ep.value.module, attr |-> Attr(ep)]

\* target(*args, **kwargs): the value the loaded function returns for these arguments
Apply(target, args, kwargs) ==
    [ty |-> "result", of |-> target, args |-> args, kwargs |-> kwargs]

CountLoad(calls, ep) == [calls EXCEPT ![ep] = @ + 1]

RECURSIVE SumOver(_, _)
SumOver(f, S) ==
    IF S = {} THEN 0
    ELSE LET e == CHOOSE e \in S : TRUE IN f[e] + SumOver(f, S \ {e})

TotalLoads == SumOver(loaderCalls, DOMAIN loaderCalls)

-----------------------------------------------------------------------------
(* load(group, name, default=None) *)

\* a variant: the groups that end with `group`, as load_group matches them
SelectSuffix(st, group) ==
    SelectSeq(st, LAMBDA ep : EndsWith(ep.group, group))

\* metadata.entry_points().select(group=group)
Select(st, group) == SelectSeq(st, LAMBDA ep : ep.group = group)

\* entrypoints.names
EntryNames(eps) == {eps[i].name : i \in DOMAIN eps}

\* a variant: `if ... and default:`, the truth value instead of `is not None`
DefaultTruthy(default) == default \notin {PyNone, PyZero}

\* `default is not None`
DefaultGiven(default) == default # PyNone

\* entrypoints[name]: the first entry of that name, or KeyError(name)
Lookup(eps, name) ==
    LET hits == SelectSeq(eps, LAMBDA ep : ep.name = name)
    IN IF Len(hits) = 0
       THEN [found |-> FALSE, error |-> [type |-> "KeyError", args |-> <<name>>]]
       ELSE [found |-> TRUE, ep |-> hits[1]]

\* a variant: `if name not in entrypoints.names: return default`
LoadOutcomeNoCheck(st, group, name, default) ==
    LET entrypoints == Select(st, group)
    IN IF name \notin EntryNames(entrypoints)
       THEN [kind |-> "return", value |-> default, loaded |-> {}]
       ELSE LET hit == Lookup(entrypoints, name)
            IN [kind |-> "return", value |-> Loaded(hit.ep), loaded |-> {hit.ep}]

\* the outcome of load: what it returns or raises, and the entry it loaded
LoadOutcome(st, group, name, default) ==
    LET entrypoints == Select(st, group)
    IN IF name \notin EntryNames(entrypoints) /\ DefaultGiven(default)
       THEN [kind |-> "return", value |-> default, loaded |-> {}]
       ELSE LET hit == Lookup(entrypoints, name)
            IN IF hit.found
               THEN [kind |-> "return", value |-> Loaded(hit.ep), loaded |-> {hit.ep}]
               ELSE [kind |-> "raise", error |-> hit.error, loaded |-> {}]

LoadDefaults == {PyNone, PyZero, PyObj("d1")}

Load(group, name, default) ==
    LET out == LoadOutcome(store, group, name, default)
    IN /\ TotalLoads < MaxCalls
       /\ last' = [op |-> "load", group |-> group, name |-> name,
                   default |-> default, out |-> out]
       /\ loaderCalls' = IF out.loaded = {} THEN loaderCalls
                         ELSE CountLoad(loaderCalls, CHOOSE ep \in out.loaded : TRUE)
       /\ UNCHANGED <<store, heap, invocations>>

-----------------------------------------------------------------------------
(* _defer_load_ep(ep) and the run() closure it returns *)

DeferLoadEp(ep) == [ty |-> "closure", ep |-> ep]

\* a variant: no test of ep.attr, `return ep.load()(*args, **kwargs)`; a
\* module is not callable
RunOutcomeCallAlways(ep, args, kwargs) ==
    IF Attr(ep) = NoAttr
    THEN [kind |-> "raise", error |-> [type |-> "TypeError", args |-> <<>>],
          loads |-> 1, passed |-> <<[args |-> args, kwargs |-> kwargs]>>]
    ELSE [kind |-> "return", value |-> Apply(Loaded(ep), args, kwargs), loads |-> 1,
          passed |-> <<[args |-> args, kwargs |-> kwargs]>>]

\* run(*args, **kwargs): the value returned, the ep.load() calls made, and the
\* argument packs handed to the loaded target
RunOutcome(ep, args, kwargs) ==
    IF Attr(ep) = NoAttr
    THEN [kind |-> "return", value |-> Loaded(ep), loads |-> 1, passed |-> <<>>]
    ELSE [kind |-> "return", value |-> Apply(Loaded(ep), args, kwargs), loads |-> 1,
          passed |-> <<[args |-> args, kwargs |-> kwargs]>>]

\* a variant: the closure keeps the target it loaded and loads only once
RunLoadsCached(calls, ep, n) ==
    IF calls[ep] > 0 THEN calls ELSE [calls EXCEPT ![ep] = @ + n]

\* the loader's call counts after run() made `n` calls of ep.load()
RunLoads(calls, ep, n) == [calls EXCEPT ![ep] = @ + n]

ArgPacks == {<<>>, <<1>>}
KwargPacks == {<<>>, [k |-> 2]}

TotalInvocations == SumOver(invocations, DOMAIN invocations)

Invoke(ref, key, args, kwargs) ==
    /\ ref \in DOMAIN heap
    /\ key \in DOMAIN heap[ref]
    /\ heap[ref][key].ty = "closure"
    /\ TotalLoads < MaxCalls
    /\ TotalInvocations < MaxCalls
    /\ LET ep == heap[ref][key].ep
           out == RunOutcome(ep, args, kwargs)
       IN /\ last' = [op |-> "invoke", ep |-> ep, args |-> args,
                      kwargs |-> kwargs, out |-> out]
          /\ loaderCalls' = RunLoads(loaderCalls, ep, out.loads)
          /\ invocations' = [invocations EXCEPT ![ep] = @ + 1]
    /\ UNCHANGED <<store, heap>>

-----------------------------------------------------------------------------
(* load_group(group, default=None, skip_defaults=False) *)

\* entrypoints_override: ep.group == group
Override(st, group) == SelectSeq(st, LAMBDA ep : ep.group = group)

\* entrypoints_prefixed: the elif branch, ep.group.endswith(group)
Prefixed(st, group) ==
    SelectSeq(st, LAMBDA ep : ep.group # group /\ EndsWith(ep.group, group))

\* a variant: both lists, entrypoints_override + entrypoints_prefixed
EffectiveMerged(st, group) == Override(st, group) \o Prefixed(st, group)

\* entrypoints_override or entrypoints_prefixed
Effective(st, group) ==
    IF Len(Override(st, group)) # 0 THEN Override(st, group) ELSE Prefixed(st, group)

\* a variant: only the trailing `group` is cut off, ep.group[:-len(group)]
PrefixTrailing(ep, group) == SubSeq(ep.group, 1, Len(ep.group) - Len(group))

\* prefix = ep.group.replace(group, "")
Prefix(ep, group) == RemoveAll(ep.group, group)

EffectiveName(ep, group) == Prefix(ep, group) \o ep.name

\* the truth value of `default`: neither None nor an empty dict
Truthy(hp, default) == default # PyNone /\ DOMAIN hp[default.ref] # {}

\* for ep in entrypoints: eps[prefix + ep.name] = _defer_load_ep(ep)
RECURSIVE InsertAll(_, _, _)
InsertAll(eps, entrypoints, group) ==
    IF Len(entrypoints) = 0 THEN eps
    ELSE InsertAll(DictSet(eps, EffectiveName(Head(entrypoints), group),
                           DeferLoadEp(Head(entrypoints))),
                   Tail(entrypoints), group)

\* a variant: `return default` whatever skip_defaults is
EmptyReturnDefault(default, skip) == default

\* the return value for an empty list of entry points
EmptyReturn(default, skip) == IF skip THEN PyNone ELSE default

\* a variant: eps.update(default) after the loop, so that defaults win
BuildEpsDefaultsLast(hp, entrypoints, group, default, skip) ==
    LET loaded == InsertAll(<<>>, entrypoints, group)
    IN IF ~skip /\ Truthy(hp, default)
       THEN DictUpdate(loaded, hp[default.ref])
       ELSE loaded

\* the dict built for a non-empty list of entry points
BuildEps(hp, entrypoints, group, default, skip) ==
    LET seeded == IF ~skip /\ Truthy(hp, default)
                  THEN DictUpdate(<<>>, hp[default.ref])
                  ELSE <<>>
    IN InsertAll(seeded, entrypoints, group)

\* hp with a new dict object of this content, bound to the caller's "r"
NewObject(hp, content) ==
    [o \in DOMAIN hp \cup {"r"} |-> IF o = "r" THEN content ELSE hp[o]]

\* a variant: `eps = default` instead of a new dict seeded with a copy, so that
\* the entries are inserted into the caller's dict
GroupEffectInPlace(st, hp, group, default, skip) ==
    LET entrypoints == Effective(st, group)
    IN IF Len(entrypoints) = 0
       THEN [heap |-> hp, ret |-> EmptyReturn(default, skip)]
       ELSE IF ~skip /\ Truthy(hp, default)
            THEN [heap |-> [hp EXCEPT ![default.ref] =
                               InsertAll(@, entrypoints, group)],
                  ret |-> default]
            ELSE [heap |-> NewObject(hp, InsertAll(<<>>, entrypoints, group)),
                  ret |-> DictRef("r")]

\* the heap after the call and the value returned: `eps` is a new dict object
GroupEffect(st, hp, group, default, skip) ==
    LET entrypoints == Effective(st, group)
    IN IF Len(entrypoints) = 0
       THEN [heap |-> hp, ret |-> EmptyReturn(default, skip)]
       ELSE [heap |-> NewObject(hp, BuildEps(hp, entrypoints, group, default, skip)),
             ret |-> DictRef("r")]

\* the content of a dict value, <<>> for None
Content(hp, v) == IF v.ty = "dict" THEN hp[v.ref] ELSE <<>>

\* the caller passes no default, or its own dict
GroupDefaults == {PyNone} \cup {DictRef(o) : o \in DOMAIN heap \cap {"d"}}

\* the caller binds its name to the value returned: a dict of an earlier call
\* that is no longer bound is released
Rebind(hp, ret) ==
    IF ret = DictRef("r") THEN hp ELSE [o \in DOMAIN hp \ {"r"} |-> hp[o]]

LoadGroup(group, default, skip) ==
    LET eff == GroupEffect(store, heap, group, default, skip)
    IN /\ default \in GroupDefaults
       /\ heap' = Rebind(eff.heap, eff.ret)
       /\ last' = [op |-> "load_group", group |-> group, default |-> default,
                   defaultValue |-> Content(heap, default), skip |-> skip,
                   ret |-> eff.ret, value |-> Content(eff.heap, eff.ret)]
       /\ UNCHANGED <<store, loaderCalls, invocations>>

-----------------------------------------------------------------------------
(* The caller: it creates the dicts it passes as `default`, and it may change *)
(* any dict it holds, the ones load_group returned included                  *)

CallerDicts == {<<>>, [k \in {Str_x, Str_z} |-> PyObj("d")]}

CallerNewDict(d) ==
    /\ "d" \notin DOMAIN heap
    /\ heap' = [o \in DOMAIN heap \cup {"d"} |-> IF o = "d" THEN d ELSE heap[o]]
    /\ UNCHANGED <<store, last, loaderCalls, invocations>>

\* the caller's ref.clear()
CallerClear(ref) ==
    /\ ref \in DOMAIN heap
    /\ heap' = [heap EXCEPT ![ref] = <<>>]
    /\ UNCHANGED <<store, last, loaderCalls, invocations>>

-----------------------------------------------------------------------------

Init ==
    /\ store \in Stores
    /\ heap = <<>>
    /\ last = [op |-> "none"]
    /\ loaderCalls = [ep \in Range(store) |-> 0]
    /\ invocations = [ep \in Range(store) |-> 0]

LoadStep ==
    \E group \in AskedGroups, name \in Names, default \in LoadDefaults :
        Load(group, name, default)

LoadGroupStep ==
    \E group \in AskedGroups, default \in GroupDefaults, skip \in BOOLEAN :
        LoadGroup(group, default, skip)

InvokeStep ==
    \E ref \in DOMAIN heap : \E key \in DOMAIN heap[ref] :
        \E args \in ArgPacks, kwargs \in KwargPacks : Invoke(ref, key, args, kwargs)

CallerStep ==
    \/ \E d \in CallerDicts : CallerNewDict(d)
    \/ \E ref \in DOMAIN heap : CallerClear(ref)

Next == LoadStep \/ LoadGroupStep \/ InvokeStep \/ CallerStep

Spec == Init /\ [][Next]_vars

\* load only
SpecLoad == Init /\ [][LoadStep]_vars

\* load_group and the caller's dicts
NextGroup == LoadGroupStep \/ CallerStep

SpecGroup == Init /\ [][NextGroup]_vars

\* load_group and the closures it returns
NextHandle == LoadGroupStep \/ InvokeStep

SpecHandle == Init /\ [][NextHandle]_vars

-----------------------------------------------------------------------------
(* What the claims speak of, read off the metadata store *)

\* the entries registered under exactly this group, and those among them of a name
ExactEntries(g) == {ep \in Range(store) : ep.group = g}
ExactNamed(g, n) == {ep \in ExactEntries(g) : ep.name = n}

\* the entries registered under another group that ends with this one
SuffixEntries(g) == {ep \in Range(store) : ep.group # g /\ EndsWith(ep.group, g)}

\* the effective set: the exact entries if there are any, else the suffixed ones
EffectiveEntries(g) == IF ExactEntries(g) # {} THEN ExactEntries(g) ELSE SuffixEntries(g)

\* prefix + name, the prefix being the entry's group with every `g` removed
KeyOf(ep, g) == RemoveAll(ep.group, g) \o ep.name

EffectiveKeys(g) == {KeyOf(ep, g) : ep \in EffectiveEntries(g)}

IsLoad == last.op = "load"
IsLoadGroup == last.op = "load_group"
IsInvoke == last.op = "invoke"

-----------------------------------------------------------------------------
(* load *)

\* C1: when no entry of the requested name is registered under exactly the
\* requested group and a default (anything but None, falsy values included) is
\* given, load returns that default and makes no ep.load() call.
C1_DefaultReturned ==
    (IsLoad /\ ExactNamed(last.group, last.name) = {} /\ last.default # PyNone)
        => /\ last.out.kind = "return"
           /\ last.out.value = last.default
           /\ last.out.loaded = {}

\* a falsy default came back although the name is registered under a group that
\* ends with the requested one
C1_Witness ==
    /\ IsLoad
    /\ ExactNamed(last.group, last.name) = {}
    /\ \E ep \in SuffixEntries(last.group) : ep.name = last.name
    /\ last.default = PyZero
    /\ last.out.value = PyZero

\* C2 as stated: with no matching entry and no default, load fails with an error
\* that carries the group and the name, returns nothing and loads nothing.
C2_ErrorCarriesGroupAndName ==
    (IsLoad /\ ExactNamed(last.group, last.name) = {} /\ last.default = PyNone)
        => /\ last.out.kind = "raise"
           /\ last.group \in Range(last.out.error.args)
           /\ last.name \in Range(last.out.error.args)
           /\ last.out.loaded = {}

\* C2, amended: with no matching entry and no default, load fails with the
\* KeyError of the lookup, which carries the requested name and nothing else;
\* it returns nothing and makes no ep.load() call.
C2_KeyErrorCarriesName ==
    (IsLoad /\ ExactNamed(last.group, last.name) = {} /\ last.default = PyNone)
        => /\ last.out.kind = "raise"
           /\ last.out.error = [type |-> "KeyError", args |-> <<last.name>>]
           /\ last.out.loaded = {}

\* load failed for a name that another entry of the requested group has not
C2_Witness ==
    /\ IsLoad
    /\ last.default = PyNone
    /\ ExactEntries(last.group) # {}
    /\ ExactNamed(last.group, last.name) = {}
    /\ last.out.kind = "raise"

\* C3: load loads nothing but an entry of exactly the requested group and name;
\* when exactly one such entry is registered, load returns the loaded target of
\* that entry, with or without a default.
C3_ExactEntryLoaded ==
    IsLoad =>
        /\ \A ep \in last.out.loaded : ep.group = last.group /\ ep.name = last.name
        /\ \A ep \in ExactNamed(last.group, last.name) :
              ExactNamed(last.group, last.name) = {ep}
                  => /\ last.out.kind = "return"
                     /\ last.out.value = Loaded(ep)
                     /\ last.out.loaded = {ep}

\* the one exact entry was loaded, a default was given, and the store also holds,
\* before it, an entry of that name with another target under a group that ends
\* with the requested one
C3_Witness ==
    /\ IsLoad
    /\ last.default # PyNone
    /\ Len(store) = 2
    /\ store[1].group # last.group /\ EndsWith(store[1].group, last.group)
    /\ store[1].name = last.name
    /\ ExactNamed(last.group, last.name) = {store[2]}
    /\ store[1].value # store[2].value
    /\ last.out.value = Loaded(store[2])

-----------------------------------------------------------------------------
(* load_group *)

\* C4: when an entry is registered under exactly the requested group, every
\* closure of the result is bound to an entry of exactly that group and keyed by
\* the entry's bare name, and every key is such a name or a key of the defaults.
C4_ExactShadowsSuffix ==
    (IsLoadGroup /\ ExactEntries(last.group) # {})
        => /\ last.ret.ty = "dict"
           /\ \A k \in DOMAIN last.value :
                 /\ last.value[k].ty = "closure"
                       => /\ last.value[k].ep \in ExactEntries(last.group)
                          /\ last.value[k].ep.name = k
                 /\ \/ \E ep \in ExactEntries(last.group) : ep.name = k
                    \/ ~last.skip /\ k \in DOMAIN last.defaultValue

\* a result of exact entries only, from a store that also holds a suffixed entry
C4_Witness ==
    /\ IsLoadGroup
    /\ ExactEntries(last.group) # {}
    /\ SuffixEntries(last.group) # {}
    /\ DOMAIN last.value = {ep.name : ep \in ExactEntries(last.group)}

\* C5: when no entry is registered under exactly the requested group, every
\* entry whose group ends with it has its key, prefix + name, in the result,
\* bound to a suffixed entry of that key; the prefix is the entry's group with
\* every occurrence of the requested group removed; no closure is bound to any
\* other entry or stored under any other key.
C5_SuffixPrefixed ==
    (IsLoadGroup /\ ExactEntries(last.group) = {})
        => /\ \A ep \in SuffixEntries(last.group) :
                 /\ last.ret.ty = "dict"
                 /\ KeyOf(ep, last.group) \in DOMAIN last.value
                 /\ last.value[KeyOf(ep, last.group)].ty = "closure"
           /\ \A k \in DOMAIN last.value :
                 last.value[k].ty = "closure"
                     => /\ last.value[k].ep \in SuffixEntries(last.group)
                        /\ KeyOf(last.value[k].ep, last.group) = k

\* group "aa.a" asked as "a": both occurrences of "a" are removed, the key is ".x"
C5_Witness ==
    /\ IsLoadGroup
    /\ last.group = Str_a
    /\ ExactEntries(Str_a) = {}
    /\ <<".", "x">> \in DOMAIN last.value
    /\ last.value[<<".", "x">>].ep.group = Str_aa_dot_a

\* C6: when no entry's group equals or ends with the requested group, the call
\* returns None if skip_defaults is set, and else the default it was given, the
\* same object with the same content (None when none was given).
C6_EmptyEffectiveSet ==
    (IsLoadGroup /\ ExactEntries(last.group) = {} /\ SuffixEntries(last.group) = {})
        => /\ last.skip => last.ret = PyNone
           /\ ~last.skip => /\ last.ret = last.default
                            /\ last.value = last.defaultValue

\* a non-empty default was suppressed by skip_defaults
C6_Witness ==
    /\ IsLoadGroup
    /\ EffectiveEntries(last.group) = {}
    /\ last.skip
    /\ last.defaultValue # <<>>
    /\ last.ret = PyNone

\* C7: when the effective set is not empty the result is a dict whose keys are
\* the effective names, together with the keys of the default only when
\* skip_defaults is not set and a default was given; every effective name maps
\* to a closure bound to an effective entry of that name, a default of the same
\* key notwithstanding, and every other key maps to its default value.
C7_MergeWithDefaults ==
    (IsLoadGroup /\ EffectiveEntries(last.group) # {})
        => /\ last.ret.ty = "dict"
           /\ DOMAIN last.value =
                 EffectiveKeys(last.group) \cup
                 (IF ~last.skip /\ last.default # PyNone
                  THEN DOMAIN last.defaultValue ELSE {})
           /\ \A k \in EffectiveKeys(last.group) :
                 /\ last.value[k].ty = "closure"
                 /\ last.value[k].ep \in EffectiveEntries(last.group)
                 /\ KeyOf(last.value[k].ep, last.group) = k
           /\ \A k \in DOMAIN last.value \ EffectiveKeys(last.group) :
                 last.value[k] = last.defaultValue[k]

\* the default has the key "x" of a registered entry and a key "z" of its own
C7_Witness ==
    /\ IsLoadGroup
    /\ ~last.skip
    /\ Str_x \in DOMAIN last.defaultValue
    /\ Str_x \in EffectiveKeys(last.group)
    /\ last.value[Str_x].ty = "closure"
    /\ last.value[Str_z] = last.defaultValue[Str_z]

\* a step that is a call of load_group: the call is the one `last` records
IsCallOfLoadGroup ==
    /\ last'.op = "load_group"
    /\ LoadGroup(last'.group, last'.default, last'.skip)

-----------------------------------------------------------------------------
(* the closures *)

\* C8: a closure bound to a module (ep.attr is None) returns the loaded module
\* whatever the arguments and hands them to nothing; a closure bound to a
\* function returns what the loaded function returns for exactly the arguments
\* of the call, positional and keyword.
C8_ModuleIgnoresArguments ==
    IsInvoke =>
        /\ last.out.kind = "return"
        /\ last.ep.value.attr = NoAttr
              => /\ last.out.value = [ty |-> "module", module |-> last.ep.value.module]
                 /\ last.out.passed = <<>>
        /\ last.ep.value.attr # NoAttr
              => /\ last.out.value = Apply(Loaded(last.ep), last.args, last.kwargs)
                 /\ last.out.passed = <<[args |-> last.args, kwargs |-> last.kwargs]>>

\* a module closure was called with a positional and a keyword argument
C8_Witness ==
    /\ IsInvoke
    /\ last.ep.value.attr = NoAttr
    /\ last.args # <<>>
    /\ last.kwargs # <<>>
    /\ last.out.value.ty = "module"

\* C9: after any sequence of load_group calls and closure calls, the ep.load()
\* calls made for an entry are as many as the calls of closures bound to it:
\* load_group makes none, and every call of a closure makes one more.
C9_OneLoadPerInvocation ==
    \A ep \in DOMAIN loaderCalls : loaderCalls[ep] = invocations[ep]

\* closures bound to one entry were called twice, and it was loaded twice
C9_Witness ==
    \E ep \in DOMAIN loaderCalls : invocations[ep] = 2 /\ loaderCalls[ep] = 2

====
